---- MODULE Spec2Model ----
(***************************************************************************)
(* Model of the usb-log crate: the interrupt-safe byte ring buffer         *)
(* (log_buffer.rs), the log sink writing rendered lines into it, the       *)
(* bulk-endpoint channel (usb_log_channel_bulk.rs) and the control-        *)
(* transfer channel (usb_log_channel.rs).                                  *)
(***************************************************************************)
EXTENDS Integers, Sequences, FiniteSets, TLC

VARIABLES
    N,                  \* const generic capacity of LogBufferInner<N>
    buf, wr, rd,        \* LogBufferInner fields
    cs,                 \* critical-section nesting depth (0: interrupts enabled)
    borrow,             \* RefCell borrow state of LogBuffer.inner
    pc,                 \* position of the main context
    packet_buffer,      \* bulk channel staging array
    packet_buffer_len,  \* bulk channel staging occupancy
    xfer,               \* control transfer being handled by the pull channel
    written,            \* history: bytes for which write returned Ok
    readout,            \* history: bytes returned by read as Some
    sent,               \* history: bytes handed over to the host, in order
    offered,            \* history: number of bytes producers have offered so far
    nlogs,              \* history: number of log calls so far
    hist,               \* history: the last ring buffer operations and their results
    op,                 \* history: the last log call (line, state before)
    call                \* history: the channel handler call in progress or last completed

vars == <<N, buf, wr, rd, cs, borrow, pc, packet_buffer, packet_buffer_len,
          xfer, written, readout, sent, offered, nlogs, hist, op, call>>

ringVars == <<buf, wr, rd>>
chanVars == <<packet_buffer, packet_buffer_len>>

----------------------------------------------------------------------------
(* Bounds *)

MaxN == 4               \* largest capacity explored by the ring buffer specification
MaxOffered == 6          \* producers stop once this many bytes were offered
MaxHist == 3            \* number of ring buffer operations remembered in hist

RingBytes == {1, 2}     \* byte values written in the ring buffer specification

----------------------------------------------------------------------------
(* Sequence helpers *)

Min(a, b) == IF a < b THEN a ELSE b

IsPrefix(s, t) == Len(s) <= Len(t) /\ SubSeq(t, 1, Len(s)) = s

RECURSIVE Flatten(_)
Flatten(ss) == IF ss = <<>> THEN <<>> ELSE Head(ss) \o Flatten(Tail(ss))

Push(h, e) == IF Len(h) < MaxHist THEN Append(h, e) ELSE Append(Tail(h), e)

----------------------------------------------------------------------------
(* LogBufferInner<N> *)

Inner == [wr |-> wr, rd |-> rd, buf |-> buf]

new(n) == [wr |-> 0, rd |-> 0, buf |-> [i \in 0..(n - 1) |-> 0]]

inc_mod_n_off(val) == IF val + 1 < N - 1 THEN val + 1 ELSE 0

inc_mod_n(val) == IF val + 1 < N THEN val + 1 ELSE 0

write_nocheck(self, byte) ==
    [self |-> [self EXCEPT !.buf[self.wr] = byte, !.wr = inc_mod_n(self.wr)],
     ok |-> TRUE]

write_clobber(self, byte) ==
    IF inc_mod_n(self.wr) # self.rd
    THEN [self |-> [self EXCEPT !.buf[self.wr] = byte, !.wr = inc_mod_n(self.wr)],
          ok |-> TRUE]
    ELSE [self |-> [self EXCEPT !.buf[self.wr] = byte], ok |-> FALSE]

write(self, byte) ==
    IF inc_mod_n(self.wr) # self.rd
    THEN [self |-> [self EXCEPT !.buf[self.wr] = byte, !.wr = inc_mod_n(self.wr)],
          ok |-> TRUE]
    ELSE [self |-> self, ok |-> FALSE]

read_stuck(self) ==
    IF self.wr # self.rd
    THEN [self |-> self, some |-> TRUE, byte |-> self.buf[self.rd]]
    ELSE [self |-> self, some |-> FALSE, byte |-> 0]

read(self) ==
    IF self.wr # self.rd
    THEN [self |-> [self EXCEPT !.rd = inc_mod_n(self.rd)],
          some |-> TRUE, byte |-> self.buf[self.rd]]
    ELSE [self |-> self, some |-> FALSE, byte |-> 0]

is_empty(self) == self.wr = self.rd

(* impl Write for LogBufferInner: stop at the first byte the buffer refuses,
   report Ok to the formatter in every case *)
RECURSIVE write_str(_, _)
write_str(self, s) ==
    IF s = <<>> THEN self
    ELSE LET r == write(self, Head(s))
         IN  IF ~r.ok THEN self ELSE write_str(r.self, Tail(s))

(* history of write_str: the bytes for which write returned Ok *)
RECURSIVE accepted_str(_, _)
accepted_str(self, s) ==
    IF s = <<>> THEN <<>>
    ELSE LET r == write(self, Head(s))
         IN  IF ~r.ok THEN <<>> ELSE <<Head(s)>> \o accepted_str(r.self, Tail(s))

(* writeln!(inner, ...): core::fmt hands the line to write_str piece by piece
   and goes on to the next piece as long as write_str returns Ok *)
RECURSIVE write_fmt(_, _)
write_fmt(self, pieces) ==
    IF pieces = <<>> THEN self
    ELSE write_fmt(write_str(self, Head(pieces)), Tail(pieces))

RECURSIVE accepted_fmt(_, _)
accepted_fmt(self, pieces) ==
    IF pieces = <<>> THEN <<>>
    ELSE accepted_str(self, Head(pieces))
         \o accepted_fmt(write_str(self, Head(pieces)), Tail(pieces))

----------------------------------------------------------------------------
(* Constants of the channels *)

EP_SIZE == 64

LOG_READ_REQUEST == 0

----------------------------------------------------------------------------
(* Initial state: LogBuffer::new() and a channel constructed on top of it *)

Queued == Len(written) - Len(readout)

(* the accepted bytes not yet returned by a read *)
Pending == SubSeq(written, Len(readout) + 1, Len(written))

NoOp == [name |-> "none"]

NoCall == [name |-> "none", done |-> TRUE, tx |-> "fresh", offer |-> <<>>,
           prev |-> "fresh", prevoffer |-> <<>>, startq |-> <<>>,
           packets |-> <<>>, intr |-> FALSE, pre |-> <<>>, restore |-> 0,
           result |-> <<>>, startlen |-> 0, reads |-> 0, attempts |-> 0,
           known |-> FALSE, inlog |-> FALSE, depth |-> 0, lines |-> <<>>]

InitWith(n) ==
    /\ N = n
    /\ buf = new(n).buf
    /\ wr = new(n).wr
    /\ rd = new(n).rd
    /\ cs = 0
    /\ borrow = "free"
    /\ pc = "idle"
    /\ packet_buffer = [i \in 0..(EP_SIZE - 1) |-> 0]
    /\ packet_buffer_len = 1
    /\ xfer = [state |-> "none"]
    /\ written = <<>>
    /\ readout = <<>>
    /\ sent = <<>>
    /\ offered = 0
    /\ nlogs = 0
    /\ hist = <<>>
    /\ op = NoOp
    /\ call = NoCall

SetInner(self) ==
    /\ buf' = self.buf
    /\ wr' = self.wr
    /\ rd' = self.rd

----------------------------------------------------------------------------
(* Ring buffer operations, each one critical section *)

(* LogBufferInner::write of one byte *)
WriteByte ==
    /\ pc = "idle" /\ cs = 0 /\ borrow = "free"
    /\ offered < MaxOffered
    /\ \E byte \in RingBytes :
         LET r == write(Inner, byte)
         IN  /\ SetInner(r.self)
             /\ written' = IF r.ok THEN Append(written, byte) ELSE written
             /\ offered' = offered + 1
             /\ hist' = Push(hist, [op |-> "write", ok |-> r.ok,
                                    pre |-> Inner, q |-> Queued])
    /\ op' = NoOp
    /\ UNCHANGED <<N, cs, borrow, pc, chanVars, xfer, readout, sent, nlogs, call>>

(* LogBuffer::read *)
ReadByte ==
    /\ pc = "idle" /\ cs = 0 /\ borrow = "free"
    /\ LET r == read(Inner)
       IN  /\ SetInner(r.self)
           /\ readout' = IF r.some THEN Append(readout, r.byte) ELSE readout
           /\ hist' = Push(hist, [op |-> "read", ok |-> r.some,
                                  pre |-> Inner, q |-> Queued])
    /\ op' = NoOp
    /\ UNCHANGED <<N, cs, borrow, pc, chanVars, xfer, written, sent, offered, nlogs,
                   call>>

(* LogBuffer::log of a record whose rendered line is handed to write_str
   in the given pieces; the whole call is one critical section *)
LogLine(pieces) ==
    /\ cs = 0 /\ borrow = "free"
    /\ SetInner(write_fmt(Inner, pieces))
    /\ written' = written \o accepted_fmt(Inner, pieces)
    /\ offered' = offered + Len(Flatten(pieces))
    /\ call' = [call EXCEPT !.intr = TRUE, !.startq = <<>>]
    /\ UNCHANGED <<N, cs, borrow, pc, chanVars, xfer, readout, sent>>

RingPieces == {<<>>, <<1>>, <<2>>, <<1, 2>>, <<2, 1>>}

RingLines ==
    {l \in {<<p>> : p \in RingPieces} \cup {<<p, q>> : p, q \in RingPieces} :
        Flatten(l) # <<>>}

Log ==
    /\ pc = "idle"
    /\ offered < MaxOffered
    /\ \E pieces \in RingLines :
         /\ LogLine(pieces)
         /\ op' = [name |-> "log", pieces |-> pieces, line |-> Flatten(pieces),
                   pre |-> Inner, queue |-> Pending]
    /\ hist' = <<>>
    /\ UNCHANGED nlogs

InitRing == \E n \in 1..MaxN : InitWith(n)

NextRing == WriteByte \/ ReadByte \/ Log

SpecRing == InitRing /\ [][NextRing]_vars

----------------------------------------------------------------------------
(* Bulk channel (usb_log_channel_bulk.rs) *)

BulkN == 66             \* ring buffer capacity under the bulk channel
BulkMaxOffered == 66    \* producers stop once this many bytes were offered
BulkMaxLogs == 5        \* producers stop after this many log calls
BulkLineLens == {1, 62} \* lengths of the lines producers log

(* the k-th byte producers offer: a non-zero u8, different from its neighbours *)
ByteAt(k) == ((k - 1) % 255) + 1

Line(start, len) == [i \in 1..len |-> ByteAt(start + i)]

(* &self.packet_buffer[..self.packet_buffer_len] *)
Staged == [i \in 1..packet_buffer_len |-> packet_buffer[i - 1]]

(* the transmission attempt's outcome, carried over polls that attempt none *)
LastTx == IF call.tx = "none" THEN call.prev ELSE call.tx

LastOffer == IF call.tx = "none" THEN call.prevoffer ELSE call.offer

(* a producer logs a line; an interrupt may do so at any position of poll *)
BulkLog ==
    /\ offered < BulkMaxOffered
    /\ nlogs < BulkMaxLogs
    /\ \E len \in BulkLineLens : LogLine(<<Line(offered, len)>>)
    /\ nlogs' = nlogs + 1
    /\ UNCHANGED <<hist, op>>

(* poll is entered: line 72 decides whether the staging buffer is refilled *)
PollEnter ==
    /\ pc = "idle"
    /\ pc' = IF packet_buffer_len = 0 THEN "poll_fill" ELSE "poll_send"
    /\ call' = [NoCall EXCEPT !.name = "poll", !.done = FALSE, !.tx = "none",
                              !.prev = LastTx, !.prevoffer = LastOffer,
                              !.startq = Pending,
                              !.startlen = packet_buffer_len]
    /\ UNCHANGED <<N, ringVars, cs, borrow, chanVars, xfer, written, readout,
                   sent, offered, nlogs, hist, op>>

staging_full_late(len) == len >= EP_SIZE

(* the break test of the refill loop *)
staging_full(len) == len >= EP_SIZE - 1

(* one turn of the while-let loop: one LogBuffer::read and its append *)
PollRead ==
    /\ pc = "poll_fill" /\ cs = 0 /\ borrow = "free"
    /\ LET r == read(Inner)
       IN  /\ SetInner(r.self)
           /\ IF r.some
              THEN /\ packet_buffer' =
                        [packet_buffer EXCEPT ![packet_buffer_len] = r.byte]
                   /\ packet_buffer_len' = packet_buffer_len + 1
                   /\ readout' = Append(readout, r.byte)
                   /\ pc' = IF staging_full(packet_buffer_len + 1)
                            THEN "poll_send" ELSE "poll_fill"
                   /\ call' = [call EXCEPT !.reads = call.reads + 1]
              ELSE /\ UNCHANGED <<chanVars, readout, call>>
                   /\ pc' = "poll_send"
    /\ UNCHANGED <<N, cs, borrow, xfer, written, sent, offered, nlogs, hist, op>>

len_after_write_always(len, ok) == 0

(* packet_buffer_len after the transmission step of poll *)
len_after_write(len, ok) == IF len > 0 /\ ok THEN 0 ELSE len

(* the transmission step: ep_in.write is tried when bytes are staged, and
   the endpoint accepts (ok) or refuses the packet *)
PollSend ==
    /\ pc = "poll_send"
    /\ \E ok \in BOOLEAN :
         /\ packet_buffer_len' = len_after_write(packet_buffer_len, ok)
         /\ sent' = IF packet_buffer_len > 0 /\ ok THEN sent \o Staged ELSE sent
         /\ call' = [call EXCEPT !.done = TRUE,
                       !.attempts = IF packet_buffer_len > 0
                                    THEN call.attempts + 1 ELSE call.attempts,
                       !.packets = IF packet_buffer_len > 0 /\ ok
                                   THEN Append(call.packets, Staged)
                                   ELSE call.packets,
                       !.tx = IF packet_buffer_len = 0 THEN "none"
                              ELSE IF ok THEN "ok" ELSE "fail",
                       !.offer = IF packet_buffer_len = 0 THEN <<>> ELSE Staged]
    /\ pc' = "idle"
    /\ UNCHANGED <<N, ringVars, cs, borrow, packet_buffer, xfer, written,
                   readout, offered, nlogs, hist, op>>

InitBulk == InitWith(BulkN)

NextBulk == BulkLog \/ PollEnter \/ PollRead \/ PollSend

SpecBulk == InitBulk /\ [][NextBulk]_vars

(* a transmission step after which nothing is staged: the endpoint took the
   packet, or there was none to send *)
PollSendOk == PollSend /\ packet_buffer_len' = 0

(* the firmware keeps calling tasks(), each poll call runs to its end, and
   the endpoint keeps accepting packets again and again *)
SpecBulkLive ==
    /\ SpecBulk
    /\ WF_vars(PollEnter)
    /\ WF_vars(PollRead)
    /\ SF_vars(PollSendOk)

----------------------------------------------------------------------------
(* Control-transfer channel (usb_log_channel.rs) *)

PullN == 5              \* ring buffer capacity under the control-transfer channel
PullMaxOffered == 6     \* producers stop once this many bytes were offered
PullLineLens == {1, 3}  \* lengths of the lines producers log

iface == 1              \* the interface number alloc.interface() handed out

(* control-IN requests the USB stack dispatches to the class *)
Requests ==
    [request_type : {"Standard", "Vendor"},
     recipient : {"Device", "Interface"},
     index : {0, iface},
     request : {LOG_READ_REQUEST, 1},
     length : {0, 2, 5}]

DataLens == {3}         \* length of the control buffer handed to the accept closure

PullLog ==
    /\ offered < PullMaxOffered
    /\ \E len \in PullLineLens : LogLine(<<Line(offered, len)>>)
    /\ UNCHANGED <<nlogs, hist, op>>

is_log_read_any_request(request) ==
    ~(\/ request.request_type # "Vendor"
      \/ request.recipient # "Interface"
      \/ request.index # iface)

(* the negation of the early-return test of control_in *)
is_log_read(request) ==
    ~(\/ request.request_type # "Vendor"
      \/ request.recipient # "Interface"
      \/ request.index # iface
      \/ request.request # LOG_READ_REQUEST)

max_len_short(request_len, data_len) ==
    IF Min(request_len, data_len) > 0 THEN Min(request_len, data_len) - 1 ELSE 0

(* request_len.min(data.len()) *)
max_len(request_len, data_len) == Min(request_len, data_len)

(* data[..len] of an accepted transfer *)
Response == [i \in 1..xfer.len |-> xfer.data[i - 1]]

(* control_in is entered: a request that is not the log read request is
   left alone, for any other the accept closure starts to drain *)
ControlIn ==
    /\ pc = "idle"
    /\ \E request \in Requests, data_len \in DataLens :
         /\ xfer' = [state |-> IF is_log_read(request) THEN "pending" ELSE "ignored",
                     req |-> request,
                     data |-> [i \in 0..(data_len - 1) |-> 0],
                     data_len |-> data_len,
                     max_len |-> max_len(request.length, data_len),
                     len |-> 0]
         /\ pc' = IF is_log_read(request) THEN "ctl_drain" ELSE "idle"
         /\ call' = [NoCall EXCEPT !.name = "control_in",
                                   !.done = ~is_log_read(request),
                                   !.startq = Pending, !.pre = Inner]
    /\ UNCHANGED <<N, ringVars, cs, borrow, chanVars, written, readout, sent,
                   offered, nlogs, hist, op>>

(* one turn of the for loop over data[..max_len]: one LogBuffer::read *)
CtlRead ==
    /\ pc = "ctl_drain" /\ cs = 0 /\ borrow = "free"
    /\ xfer.len < xfer.max_len
    /\ LET r == read(Inner)
       IN  /\ SetInner(r.self)
           /\ IF r.some
              THEN /\ xfer' = [xfer EXCEPT !.data[xfer.len] = r.byte,
                                           !.len = xfer.len + 1]
                   /\ readout' = Append(readout, r.byte)
                   /\ pc' = "ctl_drain"
              ELSE /\ UNCHANGED <<xfer, readout>>
                   /\ pc' = "ctl_accept"
    /\ UNCHANGED <<N, cs, borrow, chanVars, written, sent, offered, nlogs,
                   hist, op, call>>

(* the closure returns Ok(len): the transfer is accepted with len bytes *)
CtlAccept ==
    /\ \/ pc = "ctl_accept"
       \/ pc = "ctl_drain" /\ xfer.len >= xfer.max_len
    /\ xfer' = [xfer EXCEPT !.state = "accepted"]
    /\ sent' = sent \o Response
    /\ call' = [call EXCEPT !.done = TRUE]
    /\ pc' = "idle"
    /\ UNCHANGED <<N, ringVars, cs, borrow, chanVars, written, readout,
                   offered, nlogs, hist, op>>

InitPull == InitWith(PullN)

NextPull == PullLog \/ ControlIn \/ CtlRead \/ CtlAccept

SpecPull == InitPull /\ [][NextPull]_vars

----------------------------------------------------------------------------
(* The critical sections of LogBuffer, step by step: the main context
   consumes with LogBuffer::read and LogBuffer::is_empty, an interrupt
   handler logs whenever interrupts are enabled *)

CsN == 3                \* ring buffer capacity
CsMaxOffered == 5       \* the interrupt stops once this many bytes were offered
CsLineLens == {1, 2}    \* lengths of the lines the interrupt logs

acquire_none(depth) == depth

(* critical_section::with entered: interrupts are masked while depth > 0 *)
acquire(depth) == depth + 1

InterruptsEnabled == cs = 0

InsideOp == {"rd_body", "rd_exit", "ie_body", "ie_exit"}

(* LogBuffer::read, lines 82-83: enter the critical section, borrow_mut *)
ReadEnter ==
    /\ pc = "idle"
    /\ cs' = acquire(cs)
    /\ IF borrow = "free"
       THEN borrow' = "mut" /\ pc' = "rd_body"
       ELSE borrow' = borrow /\ pc' = "panic"
    /\ call' = [NoCall EXCEPT !.name = "read", !.done = FALSE,
                              !.startq = Pending, !.restore = cs]
    /\ UNCHANGED <<N, ringVars, chanVars, xfer, written, readout, sent,
                   offered, nlogs, hist, op>>

(* line 84: inner.read() *)
ReadBody ==
    /\ pc = "rd_body"
    /\ LET r == read(Inner)
       IN  /\ SetInner(r.self)
           /\ readout' = IF r.some THEN Append(readout, r.byte) ELSE readout
           /\ call' = [call EXCEPT !.result = IF r.some THEN <<r.byte>> ELSE <<>>]
    /\ pc' = "rd_exit"
    /\ UNCHANGED <<N, cs, borrow, chanVars, xfer, written, sent, offered,
                   nlogs, hist, op>>

(* line 85: the borrow is dropped and the critical section left *)
ReadExit ==
    /\ pc = "rd_exit"
    /\ borrow' = "free"
    /\ cs' = call.restore
    /\ pc' = "idle"
    /\ call' = [call EXCEPT !.done = TRUE]
    /\ hist' = Push(hist, [op |-> "read", ok |-> call.result # <<>>])
    /\ UNCHANGED <<N, ringVars, chanVars, xfer, written, readout, sent,
                   offered, nlogs, op>>

(* LogBuffer::is_empty, lines 90-91: enter the critical section, borrow *)
IsEmptyEnter ==
    /\ pc = "idle"
    /\ cs' = acquire(cs)
    /\ IF borrow # "mut"
       THEN borrow' = "shared" /\ pc' = "ie_body"
       ELSE borrow' = borrow /\ pc' = "panic"
    /\ call' = [NoCall EXCEPT !.name = "is_empty", !.done = FALSE,
                              !.startq = Pending, !.restore = cs]
    /\ UNCHANGED <<N, ringVars, chanVars, xfer, written, readout, sent,
                   offered, nlogs, hist, op>>

IsEmptyBody ==
    /\ pc = "ie_body"
    /\ call' = [call EXCEPT !.result = is_empty(Inner)]
    /\ pc' = "ie_exit"
    /\ UNCHANGED <<N, ringVars, cs, borrow, chanVars, xfer, written, readout,
                   sent, offered, nlogs, hist, op>>

IsEmptyExit ==
    /\ pc = "ie_exit"
    /\ borrow' = "free"
    /\ cs' = call.restore
    /\ pc' = "idle"
    /\ call' = [call EXCEPT !.done = TRUE]
    /\ hist' = Push(hist, [op |-> "is_empty", ok |-> call.result])
    /\ UNCHANGED <<N, ringVars, chanVars, xfer, written, readout, sent,
                   offered, nlogs, op>>

(* an interrupt handler calls LogBuffer::log: it preempts the main context
   wherever interrupts are enabled and runs to its end; borrow_mut panics
   when the main context holds a borrow *)
IntrLog ==
    /\ InterruptsEnabled
    /\ pc # "panic"
    /\ offered < CsMaxOffered
    /\ IF borrow = "free"
       THEN /\ \E len \in CsLineLens : LogLine(<<Line(offered, len)>>)
            /\ hist' = Push(hist, [op |-> "log", ok |-> TRUE])
       ELSE /\ pc' = "panic"
            /\ call' = [call EXCEPT !.intr = TRUE]
            /\ UNCHANGED <<N, ringVars, cs, borrow, chanVars, xfer, written,
                           readout, sent, offered, hist>>
    /\ UNCHANGED <<nlogs, op>>

InitCs == InitWith(CsN)

NextCs ==
    \/ ReadEnter \/ ReadBody \/ ReadExit
    \/ IsEmptyEnter \/ IsEmptyBody \/ IsEmptyExit
    \/ IntrLog

SpecCs == InitCs /\ [][NextCs]_vars

----------------------------------------------------------------------------
(* Rendering of log records (LogBuffer::log); text is a sequence of UTF-8
   bytes, an Option is <<>> for None and <<x>> for Some(x) *)

MAX_FILE_LEN == 32

FmtN == 64              \* ring buffer capacity, enough for the longest line

Text(n, first) == [i \in 1..n |-> first + ((i - 1) % 26)]

MainRs == <<109, 97, 105, 110, 46, 114, 115>>                  \* "main.rs"
Boot == <<98, 111, 111, 116>>                                  \* "boot"
PanicTag == <<91, 80, 65, 78, 73, 67, 93, 32>>                 \* "[PANIC] "
Dots == <<46, 46, 46>>                                         \* "..."
Unknown == <<63, 63, 63>>                                      \* "???"

EAcute == <<195, 169>>                                         \* U+00E9 in UTF-8

(* records handed to LogBuffer::log *)
Records ==
    [target : {"PANIC", "app"},
     file : {<<>>, <<MainRs>>, <<Text(32, 97)>>, <<Text(33, 97)>>,
             <<Text(40, 65)>>, <<Text(31, 97) \o EAcute>>,
             <<<<97>> \o EAcute \o Text(31, 97)>>},
     line : {<<>>, <<0>>, <<42>>, <<1205>>},
     args : {<<>>, Boot}]

(* Display of an unsigned integer *)
RECURSIVE Decimal(_)
Decimal(n) ==
    IF n < 10 THEN <<48 + n>> ELSE Decimal(n \div 10) \o <<48 + (n % 10)>>

unwrap_or(opt, default) == IF opt = <<>> THEN default ELSE opt[1]

(* str::is_char_boundary: index is 0, the length, or not at a UTF-8
   continuation byte (0x80..0xBF) *)
is_char_boundary(f, index) ==
    \/ index = 0
    \/ index = Len(f)
    \/ index < Len(f) /\ f[index + 1] \div 64 # 2

(* &f[from..]: panics unless from is a char boundary *)
slice_from(f, from) ==
    [panic |-> ~is_char_boundary(f, from),
     str |-> SubSeq(f, from + 1, Len(f))]

(* the pieces the two writeln! calls of log hand to write_str, or the panic
   of the slice that is taken before writeln! runs; str::len counts bytes *)
render(record) ==
    IF record.target = "PANIC"
    THEN [panic |-> FALSE, pieces |-> <<PanicTag, record.args, <<10>>>>]
    ELSE LET f == unwrap_or(record.file, <<>>)
             cut == slice_from(f, Len(f) - MAX_FILE_LEN)
             pf == IF record.file # <<>>
                   THEN IF Len(f) <= MAX_FILE_LEN
                        THEN <<<<>>, f>>
                        ELSE <<Dots, cut.str>>
                   ELSE <<Unknown, <<>>>>
         IN  [panic |-> record.file # <<>> /\ Len(f) > MAX_FILE_LEN /\ cut.panic,
              pieces |-> <<<<91>>, pf[1], pf[2], <<58>>,
                           Decimal(unwrap_or(record.line, 0)), <<93, 32>>,
                           record.args, <<10>>>>]

(* LogBuffer::log of one record into the empty buffer; a panic inside the
   call leaves the critical section held and the buffer borrowed *)
FmtLog ==
    /\ pc = "idle"
    /\ nlogs = 0
    /\ \E record \in Records :
         LET r == render(record)
         IN  \/ /\ ~r.panic
                /\ LogLine(r.pieces)
                /\ op' = [name |-> "log", rec |-> record, panic |-> FALSE,
                          line |-> Flatten(r.pieces)]
             \/ /\ r.panic
                /\ cs = 0 /\ borrow = "free"
                /\ cs' = 1 /\ borrow' = "mut" /\ pc' = "panic"
                /\ op' = [name |-> "log", rec |-> record, panic |-> TRUE,
                          line |-> <<>>]
                /\ UNCHANGED <<N, ringVars, chanVars, xfer, written, readout,
                               sent, offered, call>>
    /\ nlogs' = nlogs + 1
    /\ hist' = <<>>

(* LogBuffer::read by the consumer of the rendered line *)
FmtRead ==
    /\ pc = "idle" /\ cs = 0 /\ borrow = "free"
    /\ LET r == read(Inner)
       IN  /\ SetInner(r.self)
           /\ readout' = IF r.some THEN Append(readout, r.byte) ELSE readout
    /\ UNCHANGED <<N, cs, borrow, pc, chanVars, xfer, written, sent, offered,
                   nlogs, hist, op, call>>

InitFmt == InitWith(FmtN)

NextFmt == FmtLog \/ FmtRead

SpecFmt == InitFmt /\ [][NextFmt]_vars

----------------------------------------------------------------------------
(* Producers in main and interrupt context and the panic handler.  The main
   context's log call is split at every byte; hist records the accepted
   bytes of that call, the interrupt's log calls and the interrupt's reads *)

LogN == 8               \* ring buffer capacity
LogMaxLogs == 2         \* log calls of the main context and the interrupt
PanicStack == 2         \* nested entries of the panic handler the stack holds
LogLineLens == {1, 3}   \* lengths of the lines the producers log

At == <<97, 116, 32>>                                          \* "at "
EndlessLoop ==                                      \* "entering endless loop."
    <<101, 110, 116, 101, 114, 105, 110, 103, 32, 101, 110, 100, 108, 101,
      115, 115, 32, 108, 111, 111, 112, 46>>

(* the records of the three error! calls of the panic handler *)
PanicRecord(args) ==
    [target |-> "PANIC", file |-> <<MainRs>>, line |-> <<42>>, args |-> args]

LocationRecord == PanicRecord(At \o MainRs \o <<58>> \o Decimal(42))
MessageRecord == PanicRecord(Boot)
SentinelRecord == PanicRecord(EndlessLoop)

LogPieces(len) ==
    IF len = 1 THEN <<Line(offered, 1)>>
    ELSE <<Line(offered, 1), Line(offered + 1, len - 1)>>

Event(kind, rec, k) == [op |-> kind, rec |-> rec, k |-> k]

release_each_byte(rest) == TRUE

(* the critical section and the RefMut of log end with its closure *)
log_scope_ends(rest) == Flatten(rest) = <<>>

(* log in main context: enter the critical section and borrow the buffer *)
MainLogEnter ==
    /\ pc = "idle" /\ cs = 0 /\ borrow = "free"
    /\ nlogs < LogMaxLogs
    /\ \E len \in LogLineLens :
         /\ op' = [name |-> "log", rec |-> nlogs + 1, k |-> 0,
                   rest |-> LogPieces(len)]
         /\ offered' = offered + len
    /\ cs' = acquire(cs)
    /\ borrow' = "mut"
    /\ pc' = "log_body"
    /\ nlogs' = nlogs + 1
    /\ UNCHANGED <<N, ringVars, chanVars, xfer, written, readout, sent, hist,
                   call>>

(* one byte of write_str; a refused byte ends the piece *)
MainLogByte ==
    /\ pc = "log_body"
    /\ LET piece == Head(op.rest)
           r == write(Inner, Head(piece))
           rest == IF ~r.ok \/ Len(piece) = 1 THEN Tail(op.rest)
                   ELSE <<Tail(piece)>> \o Tail(op.rest)
       IN  /\ SetInner(r.self)
           /\ written' = IF r.ok THEN Append(written, Head(piece)) ELSE written
           /\ hist' = IF r.ok THEN Push(hist, Event("byte", op.rec, op.k + 1))
                      ELSE hist
           /\ op' = [op EXCEPT !.rest = rest,
                               !.k = IF r.ok THEN @ + 1 ELSE @]
           /\ cs' = IF log_scope_ends(rest) THEN 0 ELSE acquire(0)
           /\ borrow' = IF log_scope_ends(rest) THEN "free" ELSE "mut"
           /\ pc' = IF rest = <<>> THEN "idle" ELSE "log_body"
    /\ UNCHANGED <<N, chanVars, xfer, readout, sent, offered, nlogs, call>>

(* log in an interrupt handler, which runs to its end *)
LogIntr ==
    /\ InterruptsEnabled
    /\ pc # "fault"
    /\ nlogs < LogMaxLogs
    /\ \E len \in LogLineLens : LogLine(LogPieces(len))
    /\ hist' = Push(hist, Event("log", nlogs + 1, 0))
    /\ nlogs' = nlogs + 1
    /\ UNCHANGED op

(* LogBuffer::read in an interrupt handler *)
ReadIntr ==
    /\ InterruptsEnabled /\ borrow = "free"
    /\ pc # "fault"
    /\ LET r == read(Inner)
       IN  /\ SetInner(r.self)
           /\ readout' = IF r.some THEN Append(readout, r.byte) ELSE readout
    /\ hist' = Push(hist, Event("read", 0, 0))
    /\ UNCHANGED <<N, cs, borrow, pc, chanVars, xfer, written, sent, offered,
                   nlogs, op, call>>

(* a panic outside of any log call *)
Panic ==
    /\ pc = "idle"
    /\ call.name = "none"
    /\ \E known \in BOOLEAN :
         call' = [NoCall EXCEPT !.name = "panic", !.known = known]
    /\ pc' = "panic_loc"
    /\ UNCHANGED <<N, ringVars, cs, borrow, chanVars, xfer, written, readout,
                   sent, offered, nlogs, hist, op>>

(* a panic raised by the arguments of a record while log formats it: the
   critical section stays held and the buffer stays borrowed *)
PanicInLog ==
    /\ pc = "log_body"
    /\ call.name = "none"
    /\ \E known \in BOOLEAN :
         call' = [NoCall EXCEPT !.name = "panic", !.known = known,
                                !.inlog = TRUE]
    /\ pc' = "panic_loc"
    /\ UNCHANGED <<N, ringVars, cs, borrow, chanVars, xfer, written, readout,
                   sent, offered, nlogs, hist, op>>

(* error!(target: "PANIC", ...) of the panic handler: log renders and queues
   the record, or its borrow_mut panics and the handler is entered again *)
PanicLog(record, tag, next) ==
    IF borrow = "free"
    THEN LET pieces == render(record).pieces
         IN  /\ SetInner(write_fmt(Inner, pieces))
             /\ written' = written \o accepted_fmt(Inner, pieces)
             /\ hist' = Push(hist, Event("log", 0, 0))
             /\ op' = [name |-> "panic_log", line |-> Flatten(pieces)]
             /\ call' = [call EXCEPT !.lines = Append(@, tag),
                                     !.startlen = Len(written')]
             /\ pc' = next
             /\ UNCHANGED <<N, cs, borrow, chanVars, xfer, readout, sent,
                            offered, nlogs>>
    ELSE /\ cs' = acquire(cs)
         /\ pc' = IF call.depth < PanicStack THEN "panic_loc" ELSE "fault"
         /\ call' = [call EXCEPT !.depth = Min(@ + 1, PanicStack)]
         /\ UNCHANGED <<N, ringVars, borrow, chanVars, xfer, written, readout,
                        sent, offered, nlogs, hist, op>>

PanicLocation ==
    /\ pc = "panic_loc"
    /\ IF call.known
       THEN PanicLog(LocationRecord, "location", "panic_msg")
       ELSE /\ pc' = "panic_msg"
            /\ UNCHANGED <<N, ringVars, cs, borrow, chanVars, xfer, written,
                           readout, sent, offered, nlogs, hist, op, call>>

PanicMessage ==
    /\ pc = "panic_msg"
    /\ PanicLog(MessageRecord, "message", "panic_end")

(* the last record; loop {} follows, in which pc stays "halt" *)
PanicSentinel ==
    /\ pc = "panic_end"
    /\ PanicLog(SentinelRecord, "sentinel", "halt")

InitLog == InitWith(LogN)

NextLog ==
    \/ MainLogEnter \/ MainLogByte
    \/ LogIntr \/ ReadIntr
    \/ Panic \/ PanicInLog
    \/ PanicLocation \/ PanicMessage \/ PanicSentinel

SpecLog == InitLog /\ [][NextLog]_vars

----------------------------------------------------------------------------
(* Abstraction of the ring buffer *)

(* the bytes the storage holds between the read and the write cursor *)
RECURSIVE Contents(_)
Contents(self) ==
    IF self.wr = self.rd THEN <<>>
    ELSE <<self.buf[self.rd]>> \o Contents([self EXCEPT !.rd = inc_mod_n(self.rd)])

Last(h) == h[Len(h)]

----------------------------------------------------------------------------
(* C1: for every sequence of writes and reads on a buffer of capacity N, the
   number of bytes successfully written minus the number successfully read
   never exceeds N-1, and is_empty() is true exactly when that number is 0. *)
C1_Occupancy ==
    /\ Queued <= N - 1
    /\ is_empty(Inner) <=> (Queued = 0)

(* a buffer that was filled to N-1 bytes after its cursors wrapped *)
C1_Witness ==
    /\ N >= 3
    /\ Queued = N - 1
    /\ Len(readout) >= 2
    /\ hist # <<>> /\ Last(hist).op = "write" /\ ~Last(hist).ok

(* C2: the bytes returned by successful reads are a prefix of the bytes
   accepted by successful writes, also when the cursors wrap: same order,
   no byte twice, no byte that was never written. *)
C2_Fifo == IsPrefix(readout, written)

(* more bytes were read back than the storage has slots *)
C2_Witness ==
    /\ N >= 2
    /\ Len(readout) > N
    /\ \E i \in 1..(Len(readout) - 1) : readout[i] # readout[i + 1]

(* C3 (as stated): a write to a full buffer fails and leaves storage and
   cursors unchanged; a read and a write that follow both succeed and the
   buffer holds N-1 bytes again. *)
FullWriteRefused ==
    (hist # <<>> /\ Last(hist).op = "write" /\ Last(hist).q = N - 1)
        => (~Last(hist).ok /\ Inner = Last(hist).pre)

FullReadWrite ==
    /\ Len(hist) >= 3
    /\ hist[Len(hist) - 2].op = "write" /\ hist[Len(hist) - 2].q = N - 1
    /\ hist[Len(hist) - 1].op = "read"
    /\ hist[Len(hist)].op = "write"

C3_AsStated ==
    /\ FullWriteRefused
    /\ FullReadWrite =>
         (hist[Len(hist) - 1].ok /\ hist[Len(hist)].ok /\ Queued = N - 1)

(* C3 (amended): the same for a buffer of capacity N >= 2; with N = 1 the
   buffer is full and empty at once, and the read that follows returns None. *)
C3_FullWrite ==
    /\ FullWriteRefused
    /\ (N >= 2 /\ FullReadWrite) =>
         (hist[Len(hist) - 1].ok /\ hist[Len(hist)].ok /\ Queued = N - 1)

(* refused write on a full buffer, then a read and a write *)
C3_Witness ==
    /\ N >= 3
    /\ FullReadWrite
    /\ ~hist[Len(hist) - 2].ok
    /\ Len(readout) >= 2

(* C9: when the rendered line of a record has more bytes than the buffer has
   free slots, the log call returns normally, the bytes appended are exactly
   the longest prefix of the line that fits, the rest of the line is dropped
   and the bytes queued before the call are unchanged. *)
FreeBefore == (N - 1) - Len(op.queue)

C9_Overflow ==
    (op.name = "log" /\ Len(op.line) > FreeBefore)
        => /\ Pending = op.queue \o SubSeq(op.line, 1, FreeBefore)
           /\ Contents(Inner) = Pending
           /\ cs = 0 /\ borrow = "free" /\ pc = "idle"

(* a line cut inside its first piece, behind bytes that were already queued *)
C9_Witness ==
    /\ op.name = "log"
    /\ Len(op.pieces) = 2
    /\ Len(op.queue) > 0
    /\ FreeBefore > 0
    /\ Len(op.pieces[1]) > FreeBefore
    /\ op.pieces[2] # <<>>

----------------------------------------------------------------------------
(* a poll call has returned, no producer ran since it was entered *)
PollReturned == call.name = "poll" /\ call.done /\ ~call.intr

(* C4 (as stated): a poll call on a freshly constructed channel, or after a
   successful transmission, with k bytes (1 <= k <= 63) queued and the
   endpoint accepting the write, transmits exactly one packet holding those
   k bytes in order and leaves staging buffer and ring buffer empty. *)
C4_AsStated ==
    (/\ PollReturned
     /\ call.prev \in {"fresh", "ok"}
     /\ Len(call.startq) \in 1..(EP_SIZE - 1)
     /\ call.tx # "fail")
        => /\ call.packets = <<call.startq>>
           /\ packet_buffer_len = 0
           /\ is_empty(Inner) /\ Pending = <<>>

(* C5 (as stated): every packet handed to the endpoint carries 1..63 bytes,
   and the transmitted payloads, concatenated, are bytes the channel removed
   from the ring buffer: nothing else is ever transmitted. *)
C5_AsStated ==
    /\ \A i \in 1..Len(call.packets) :
           Len(call.packets[i]) \in 1..(EP_SIZE - 1)
    /\ IsPrefix(sent, readout)

(* C6: a failed endpoint write leaves the staging buffer and its length
   unchanged, the following poll calls offer the same bytes until a write
   succeeds, and every byte removed from the ring buffer is delivered in
   exactly one accepted packet: none lost, none duplicated. *)
FromRing == sent # <<>>     \* the staging buffer has been refilled by poll

Delivered == IF FromRing THEN Tail(sent) ELSE <<>>

StagedFromRing == IF FromRing THEN Staged ELSE <<>>

C6_Retry ==
    /\ (call.name = "poll" /\ call.done /\ call.tx = "fail")
          => (Staged = call.offer /\ call.packets = <<>>)
    /\ (call.name = "poll" /\ call.done /\ call.prev = "fail")
          => (call.tx # "none" /\ call.offer = call.prevoffer)
    /\ readout = Delivered \o StagedFromRing

(* bytes read from the ring buffer were refused once and accepted on the
   next poll *)
C6_Witness ==
    /\ call.name = "poll" /\ call.done
    /\ call.prev = "fail" /\ call.tx = "ok"
    /\ Len(call.offer) >= 2
    /\ Delivered = readout /\ Len(readout) >= 2

----------------------------------------------------------------------------
(* a control_in call has returned, no producer ran since it was entered *)
CtlReturned == call.name = "control_in" /\ call.done /\ ~call.intr

(* the log read request, in the terms of the interface description: type
   Vendor, recipient Interface, this interface's number, request 0 *)
LogReadRequest(request) ==
    /\ request.request_type = "Vendor"
    /\ request.recipient = "Interface"
    /\ request.index = iface
    /\ request.request = 0

(* the response, its reported length and the ring buffer after a drain of k
   bytes out of the bytes queued at the call *)
Drained(k) ==
    /\ xfer.state = "accepted"
    /\ xfer.len = k
    /\ Response = SubSeq(call.startq, 1, k)
    /\ Pending = SubSeq(call.startq, k + 1, Len(call.startq))
    /\ Contents(Inner) = Pending

(* C7 (as stated): a matching request of length L on a buffer holding A
   bytes is answered with exactly the min(L, A) oldest bytes in FIFO order,
   the reported length is that count, exactly those bytes leave the ring
   buffer, and an empty buffer gives an accepted response of length 0. *)
C7_AsStated ==
    (CtlReturned /\ LogReadRequest(xfer.req))
        => Drained(Min(xfer.req.length, Len(call.startq)))

(* C7 (amended): the count is min(L, D, A), D the length of the control
   buffer the USB stack hands to the handler. *)
C7_Drain ==
    (CtlReturned /\ LogReadRequest(xfer.req))
        => Drained(Min(Min(xfer.req.length, xfer.data_len), Len(call.startq)))

(* a request for fewer bytes than are queued, after the cursors wrapped *)
C7_Witness ==
    /\ CtlReturned /\ LogReadRequest(xfer.req)
    /\ xfer.req.length = 2
    /\ Len(call.startq) > 2
    /\ Len(readout) > N

(* a request on an empty buffer *)
C7_WitnessEmpty ==
    /\ CtlReturned /\ LogReadRequest(xfer.req)
    /\ xfer.req.length > 0
    /\ call.startq = <<>> /\ written # <<>>

(* C8: a control-IN request that differs from the log read request in
   request type, recipient, interface index or request identifier is
   ignored: the transfer is neither accepted nor rejected and the ring
   buffer's contents and cursors are unchanged. *)
C8_Ignored ==
    (call.name = "control_in" /\ ~LogReadRequest(xfer.req))
        => /\ xfer.state = "ignored"
           /\ call.done /\ pc = "idle"
           /\ ~call.intr => Inner = call.pre

(* a request that differs in the request identifier only, on a buffer that
   holds bytes *)
C8_Witness ==
    /\ CtlReturned
    /\ xfer.req.request_type = "Vendor"
    /\ xfer.req.recipient = "Interface"
    /\ xfer.req.index = iface
    /\ xfer.req.request # 0
    /\ xfer.req.length > 0
    /\ Pending # <<>>

----------------------------------------------------------------------------
(* C10: with an interrupt-context producer that may run between any two
   operations of the main-context consumer, every ring buffer operation is
   atomic: a byte written by the interrupt is observed by the consumer
   entirely before or entirely after each consumer operation, and cursors
   and storage are never in a state a sequential execution of the same
   operations could not produce. *)
C10_Atomic ==
    /\ pc # "panic"
    /\ pc \in InsideOp => (~call.intr /\ borrow # "free")
    /\ Contents(Inner) = Pending
    /\ (call.name = "read" /\ pc \in {"rd_exit", "idle"} /\ ~call.intr)
          => /\ call.result = SubSeq(call.startq, 1, Min(1, Len(call.startq)))
             /\ Pending = SubSeq(call.startq, 2, Len(call.startq))
    /\ (call.name = "is_empty" /\ pc \in {"ie_exit", "idle"} /\ ~call.intr)
          => call.result = (call.startq = <<>>)

(* the consumer found the buffer empty, the interrupt logged, and the next
   read returned the first byte of its line *)
C10_Witness ==
    /\ Len(hist) >= 3
    /\ hist[Len(hist) - 2].op \in {"read", "is_empty"}
    /\ hist[Len(hist) - 1].op = "log"
    /\ hist[Len(hist)].op = "read" /\ hist[Len(hist)].ok
    /\ Len(written) > N

----------------------------------------------------------------------------
(* C15: in every reachable state of a ring buffer of capacity N >= 1 both
   cursors lie in 0..N-1, the number of queued bytes equals (wr - rd) mod N,
   wr = rd holds exactly when the buffer is empty and next(wr) = rd exactly
   when it is full. *)
C15_Cursors ==
    /\ wr \in 0..(N - 1) /\ rd \in 0..(N - 1)
    /\ Queued = (wr - rd + N) % N
    /\ (wr = rd) <=> (Queued = 0)
    /\ (inc_mod_n(wr) = rd) <=> (Queued = N - 1)

(* a full buffer whose write cursor has wrapped behind the read cursor *)
C15_Witness ==
    /\ N >= 3
    /\ wr < rd
    /\ Queued = N - 1

----------------------------------------------------------------------------
(* a poll call is in progress, entered with bytes already staged *)
PollOnStaged == call.name = "poll" /\ ~call.done /\ call.startlen > 0

(* the staging buffer is cleared by an accepted transmission of its bytes *)
ClearedBySend == packet_buffer_len' = 0 /\ sent' = sent \o Staged

(* C13: the staging buffer is refilled from the ring buffer only by a poll
   call that found it empty and is set to empty only by a successful
   transmission; a poll call that finds it non-empty removes no byte from
   the ring buffer and appends nothing to the staged bytes, whether or not
   its transmission succeeds. *)
C13_Staging ==
    [][/\ readout' # readout
            => /\ call.name = "poll" /\ ~call.done /\ call.startlen = 0
               /\ Staged' = Append(Staged, Last(readout'))
       /\ packet_buffer_len' > packet_buffer_len => readout' # readout
       /\ packet_buffer_len' < packet_buffer_len => ClearedBySend
       /\ PollOnStaged
            => /\ readout' = readout /\ rd' = rd
               /\ Staged' = Staged \/ ClearedBySend]_vars

(* a poll call found ring data staged by an earlier call, its transmission
   was refused again, and newer bytes wait in the ring buffer *)
C13_Witness ==
    /\ call.name = "poll" /\ call.done
    /\ call.startlen > 1
    /\ call.tx = "fail"
    /\ Staged = call.offer
    /\ Pending # <<>>

(* C14: every poll call ends after removing at most 63 bytes from the ring
   buffer and at most one endpoint write attempt, also when interrupt
   producers add bytes while it drains; the staging length stays within
   0..63 in every reachable state. *)
C14_Bounded ==
    /\ packet_buffer_len \in 0..(EP_SIZE - 1)
    /\ call.reads <= EP_SIZE - 1
    /\ call.attempts <= 1
    /\ pc = "poll_fill" => (call.reads < EP_SIZE - 1 /\ call.attempts = 0)
    /\ pc = "poll_send" => call.attempts = 0

(* a poll call that stopped at 63 bytes although a producer logged while it
   was draining and bytes were left in the ring buffer *)
C14_Witness ==
    /\ call.name = "poll" /\ call.done
    /\ call.reads = EP_SIZE - 1
    /\ call.attempts = 1
    /\ call.intr
    /\ Pending # <<>>

----------------------------------------------------------------------------
(* the bytes the accept closure has stored so far *)
Partial == [i \in 1..xfer.len |-> xfer.data[i - 1]]

(* C19: with interrupt producers logging between any two byte reads of a
   drain, each response is no longer than the requested length, the
   responses of all matching requests, concatenated, are a prefix of the
   bytes the ring buffer accepted, and the bytes removed from the ring
   buffer are exactly the bytes reported in responses. *)
C19_Interleaved ==
    /\ xfer.state \in {"pending", "accepted"}
          => (xfer.len <= xfer.req.length /\ xfer.len <= xfer.data_len)
    /\ IsPrefix(sent, written)
    /\ pc = "idle" => readout = sent
    /\ pc \in {"ctl_drain", "ctl_accept"} => readout = sent \o Partial

(* a response that holds more bytes than were queued when the request came in:
   a producer logged between two reads of the drain *)
C19_Witness ==
    /\ call.name = "control_in" /\ call.done
    /\ xfer.state = "accepted"
    /\ xfer.len > Len(Contents(call.pre))
    /\ Len(Contents(call.pre)) > 0
    /\ Len(sent) > xfer.len

----------------------------------------------------------------------------
(* everything the ring buffer accepted is on the wire, once and in order *)
AllDelivered ==
    /\ is_empty(Inner) /\ Pending = <<>>
    /\ packet_buffer_len = 0
    /\ Delivered = written

(* C18: if producers eventually stop logging, poll is called again and again
   and the endpoint write succeeds again and again, then eventually the ring
   buffer and the staging buffer are empty and every byte the ring buffer
   accepted has been transmitted exactly once, in the order accepted. *)
C18_Drains == <>[]AllDelivered

(* more than one packet's worth of bytes went through, a transmission was
   refused on the way, and everything has arrived *)
C18_Witness ==
    /\ AllDelivered
    /\ Len(written) >= EP_SIZE
    /\ call.name = "poll" /\ call.prev = "fail"

----------------------------------------------------------------------------
(* the decimal digits of the line numbers of Records *)
Digits(n) ==
    CASE n = 0 -> <<48>>
      [] n = 42 -> <<52, 50>>
      [] n = 1205 -> <<49, 50, 48, 53>>

(* the positions of s at which a character starts *)
CharStarts(s) == {i \in 1..Len(s) : s[i] \div 64 # 2}

(* the last k characters of s, which has more than k *)
LastChars(s, k) ==
    LET from == CHOOSE i \in CharStarts(s) :
                    Cardinality({j \in CharStarts(s) : j >= i}) = k
    IN  SubSeq(s, from, Len(s))

(* the line the interface description gives for a record *)
Rendered(rec) ==
    IF rec.target = "PANIC"
    THEN PanicTag \o rec.args \o <<10>>
    ELSE LET name == IF rec.file = <<>> THEN Unknown
                     ELSE IF Cardinality(CharStarts(rec.file[1])) > 32
                          THEN Dots \o LastChars(rec.file[1], 32)
                          ELSE rec.file[1]
             number == IF rec.line = <<>> THEN <<48>> ELSE Digits(rec.line[1])
         IN  <<91>> \o name \o <<58>> \o number \o <<93, 32>> \o rec.args
                    \o <<10>>

(* C12: a record with target "PANIC" renders as "[PANIC] <message>\n", any
   other as "[<prefix><file>:<line>] <message>\n": a missing file gives
   "???" and no file part, a file name longer than 32 characters "..." and
   its last 32 characters, a shorter one the full name and no prefix, and a
   missing line number renders as 0. *)
C12_AsStated ==
    op.name = "log"
        => /\ ~op.panic
           /\ op.line = Rendered(op.rec)
           /\ written = Rendered(op.rec)
           /\ IsPrefix(readout, Rendered(op.rec))

(* the same for file names of one-byte characters only *)
Ascii(rec) == rec.file = <<>> \/ \A i \in 1..Len(rec.file[1]) : rec.file[1][i] < 128

C12_Ascii ==
    op.name = "log" /\ Ascii(op.rec)
        => /\ ~op.panic
           /\ op.line = Rendered(op.rec)
           /\ written = Rendered(op.rec)
           /\ IsPrefix(readout, Rendered(op.rec))

C12_AsciiWitness ==
    /\ op.name = "log"
    /\ op.rec.target = "app"
    /\ op.rec.file # <<>> /\ Len(op.rec.file[1]) = 40
    /\ op.rec.line = <<1205>>
    /\ readout = written /\ Len(written) = 48


----------------------------------------------------------------------------
(* C17: the bytes one log call queues are contiguous: every byte of a record
   after its first directly follows the byte before it of the same record,
   with no log call of the other producer and no consumer read between. *)
C17_Contiguous ==
    \A i \in 1..Len(hist) :
        hist[i].op = "byte" /\ hist[i].k > 1 /\ i > 1
            => hist[i - 1] = Event("byte", hist[i].rec, hist[i].k - 1)

(* the main context queued a record of three bytes after the interrupt
   logged and read *)
C17_Witness ==
    /\ Len(hist) = MaxHist
    /\ hist[MaxHist] = Event("byte", 2, 3)
    /\ readout # <<>>
    /\ call.intr

(* the lines the panic handler is to queue *)
PanicLines ==
    IF call.known THEN <<"location", "message", "sentinel">>
    ELSE <<"message", "sentinel">>

(* C16: wherever the panic is raised, also inside a log call that has the
   buffer borrowed, the log calls of the panic handler complete without
   faulting and the process reaches the halted state. *)
C16_AsStated ==
    call.name = "panic" => call.depth = 0 /\ pc # "fault"

(* C11: a panic queues the location (when known), the message and the
   sentinel, in this order, each as a "[PANIC] " line, then stays halted and
   writes no further bytes. *)
C11_AsStated ==
    /\ call.name = "panic"
         => /\ IsPrefix(call.lines, PanicLines)
            /\ pc \in {"panic_loc", "panic_msg", "panic_end", "halt"}
            /\ pc = "halt" <=> call.lines = PanicLines
    /\ op.name = "panic_log" => IsPrefix(PanicTag, op.line) /\ Last(op.line) = 10

(* a panic raised outside of a log call queues its lines and halts *)
PanicOutsideLog ==
    call.name = "panic" /\ ~call.inlog
        => /\ call.depth = 0
           /\ IsPrefix(call.lines, PanicLines)
           /\ pc \in {"panic_loc", "panic_msg", "panic_end", "halt"}
           /\ pc = "halt" <=> call.lines = PanicLines
           /\ op.name = "panic_log"
                => IsPrefix(PanicTag, op.line) /\ Last(op.line) = 10

HaltedOutsideLog == call.name = "panic" /\ ~call.inlog /\ pc = "halt" /\ call.known

(* the interrupt still queues bytes after the halt *)
HaltQuiet == pc = "halt" => Len(written) = call.startlen

====
